---- MODULE Spec2Model ----
(***************************************************************************)
(* A model of js/public/Utility.h: the allocator facade with its OOM fault *)
(* injector (DEBUG build, system allocator backend), the typed             *)
(* construction helpers, the POD bulk helpers, the scoped-pointer release  *)
(* traits and the stale-pointer marker.                                    *)
(*                                                                         *)
(* uint32_t, size_t and pointer words are little-endian sequences of bytes *)
(* (index 1 is the least significant byte), so that they keep their real   *)
(* width: 4 bytes for uint32_t, 4 or 8 bytes for size_t and pointers.      *)
(***************************************************************************)
EXTENDS Integers, Sequences, FiniteSets, TLC

\* ------------------------------------------------------------------ bounds

\* Gated allocation attempts in one run.
MaxAttempts == 4
\* Blocks the backend can hand out.
NumBlocks == 2
\* Gated allocation attempts in one run of the POD bulk helpers.
MaxPodAttempts == 1
\* Scoped wrappers in one run.
NumWrappers == 2

NumThreads == 2

\* ------------------------------------------------------- fixed-width words

ZeroW(n) == [i \in 1..n |-> 0]

MaxW(n) == [i \in 1..n |-> 255]

\* The n-byte word of value k, for 0 <= k < 65536.
SmallW(n, k) ==
    [i \in 1..n |-> IF i = 1 THEN k % 256
                    ELSE IF i = 2 THEN (k \div 256) % 256
                    ELSE 0]

\* The n-byte word of value 2^(8n) - 1 - k, for 0 <= k < 256.
TopW(n, k) == [i \in 1..n |-> IF i = 1 THEN 255 - k ELSE 255]

\* x + 1 in unsigned arithmetic of x's width: the carry runs through the
\* low bytes that are 255, and a word of all 255 wraps to 0.
IncW(x) ==
    LET n == Len(x)
        nz == {i \in 1..n : x[i] # 255}
    IN  IF nz = {} THEN ZeroW(n)
        ELSE LET k == CHOOSE i \in nz : \A j \in nz : i <= j
             IN  [i \in 1..n |-> IF i < k THEN 0
                                 ELSE IF i = k THEN x[i] + 1
                                 ELSE x[i]]

\* a > b, unsigned, for words of one width.
GtW(a, b) ==
    \E i \in 1..Len(a) :
        /\ a[i] > b[i]
        /\ \A j \in (i + 1)..Len(a) : a[j] = b[j]

\* Whether a word's value is below 65536, and that value.
IsSmallW(x) == \A i \in 3..Len(x) : x[i] = 0

ValW(x) == x[1] + 256 * x[2]

\* ------------------------------------------------------------ the platform

UINT32_BYTES == 4

UINT32_MAX == MaxW(UINT32_BYTES)

U32(k) == SmallW(UINT32_BYTES, k)

\* sizeof(size_t) = sizeof(void*) of the two pointer layouts.
PtrBytes == {4, 8}

nullptr == 0

Blocks == 1..NumBlocks

Pointers == {nullptr} \cup Blocks

VARIABLES
    ptrBytes,            \* sizeof(size_t) of this build
    OOM_maxAllocations,  \* uint32_t
    OOM_counter,         \* uint32_t
    heap,                \* the backend's blocks: whether each is allocated
    slot,                \* the object in each block: its bytes, and what ran on it
    fc,                  \* what the last operation called, in order: the facade,
                         \* constructors, destructors, memset
    bk,                  \* the backend calls the last operation made, in order
    last,                \* the last operation: its name, arguments and result
    attempts,            \* gated allocation attempts so far
    scenario,            \* progress through the end-to-end scenario of the spec
    policy,              \* the release policy of the scoped wrappers of this run
    wrappers,            \* the scoped wrappers: state, value, history
    bigEndian,           \* the byte order of this build
    rootAnalysis,        \* JSGC_ROOT_ANALYSIS && JS_DEBUG
    word,                \* a pointer word on the stack, checked for poison
    threads,             \* each thread's position in a gated allocation, and
                         \* the count it holds in a register
    tally                \* what the gated allocations of the threads did so far

facadeVars ==
    <<OOM_maxAllocations, OOM_counter, heap, slot, fc, bk, last, attempts, scenario>>

otherVars == <<policy, wrappers, bigEndian, rootAnalysis, word, threads, tally>>

SizeT(k) == SmallW(ptrBytes, k)

\* The machine state the facade's functions read and write.
Cur ==
    [counter |-> OOM_counter, max |-> OOM_maxAllocations, heap |-> heap,
     slot |-> slot, fc |-> <<>>, bk |-> <<>>, ret |-> nullptr, exhausted |-> FALSE]

\* A block that holds no object: t is the size of the object's type (0 for
\* none), ctor, dtor and rel count the constructors, destructors and
\* release() methods run on it.
RawSlot == [t |-> 0, bytes |-> <<>>, ctor |-> 0, dtor |-> 0, rel |-> 0]

\* ------------------------------------------------------------ the backend

\* What malloc, calloc or realloc may return for a fresh block: null, or a
\* block that is not allocated.
FreshOutcomes(s) == {nullptr} \cup {b \in Blocks : ~s.heap[b]}

Logged(s, fn, p, a, b, r) ==
    [s EXCEPT !.bk = Append(@, [fn |-> fn, p |-> p, a |-> a, b |-> b, ret |-> r]),
              !.ret = r]

malloc(s, bytes, r) ==
    LET t == Logged(s, "malloc", nullptr, bytes, <<>>, r)
    IN  IF r = nullptr THEN t
        ELSE [t EXCEPT !.heap[r] = TRUE, !.slot[r] = RawSlot]

calloc(s, nmemb, size, r) ==
    LET t == Logged(s, "calloc", nullptr, nmemb, size, r)
    IN  IF r = nullptr THEN t
        ELSE [t EXCEPT !.heap[r] = TRUE, !.slot[r] = RawSlot]

\* realloc(p, bytes) for p null or allocated: it fails and leaves p as it
\* is (r null), resizes p in place (r = p), or moves it to a fresh block r.
ReallocOutcomes(s, p) ==
    FreshOutcomes(s) \cup (IF p = nullptr THEN {} ELSE {p})

realloc(s, p, bytes, r) ==
    LET t == Logged(s, "realloc", p, bytes, <<>>, r)
    IN  IF r = nullptr THEN t
        ELSE IF p = nullptr THEN [t EXCEPT !.heap[r] = TRUE, !.slot[r] = RawSlot]
        ELSE IF r = p THEN t
        ELSE [t EXCEPT !.heap[r] = TRUE, !.heap[p] = FALSE, !.slot[r] = s.slot[p]]

free(s, p) ==
    LET t == Logged(s, "free", p, <<>>, <<>>, nullptr)
    IN  IF p = nullptr THEN t ELSE [t EXCEPT !.heap[p] = FALSE]

\* --------------------------------------------------- the OOM fault injector

\* Mutant: the count is compared before it is incremented (OOM_counter++).
JS_OOM_POSSIBLY_FAIL_postinc(s) ==
    [s EXCEPT !.counter = IncW(s.counter), !.exhausted = GtW(s.counter, s.max)]

\* Mutant: the comparison is >= instead of >.
JS_OOM_POSSIBLY_FAIL_ge(s) ==
    LET c == IncW(s.counter)
    IN  [s EXCEPT !.counter = c, !.exhausted = c = s.max \/ GtW(c, s.max)]

\* ++OOM_counter > OOM_maxAllocations: the state after the increment, with
\* whether the macro returns nullptr from the enclosing function.
JS_OOM_POSSIBLY_FAIL(s) ==
    LET c == IncW(s.counter)
    IN  [s EXCEPT !.counter = c, !.exhausted = GtW(c, s.max)]

\* ------------------------------------------------------ the allocator facade

\* The machine on entry to a facade function.
Entered(s, op, p, a, b) ==
    [s EXCEPT !.fc = Append(@, [op |-> op, p |-> p, a |-> a, b |-> b,
                                \* what p points to at the call
                                mem |-> IF p = nullptr THEN <<>> ELSE s.slot[p].bytes]),
              !.exhausted = FALSE]

js_malloc(s, bytes, r) ==
    LET t == JS_OOM_POSSIBLY_FAIL(Entered(s, "js_malloc", nullptr, bytes, <<>>))
    IN  IF t.exhausted THEN [t EXCEPT !.ret = nullptr]
        ELSE malloc(t, bytes, r)

js_calloc(s, bytes, r) ==
    LET t == JS_OOM_POSSIBLY_FAIL(Entered(s, "js_calloc", nullptr, bytes, <<>>))
    IN  IF t.exhausted THEN [t EXCEPT !.ret = nullptr]
        ELSE calloc(t, bytes, SizeT(1), r)

js_calloc2(s, nmemb, size, r) ==
    LET t == JS_OOM_POSSIBLY_FAIL(Entered(s, "js_calloc2", nullptr, nmemb, size))
    IN  IF t.exhausted THEN [t EXCEPT !.ret = nullptr]
        ELSE calloc(t, nmemb, size, r)

\* Mutant: the backend is called before the injector is consulted.
js_realloc_early(s, p, bytes, r) ==
    LET t == JS_OOM_POSSIBLY_FAIL(
                 realloc(Entered(s, "js_realloc", p, bytes, <<>>), p, bytes, r))
    IN  IF t.exhausted THEN [t EXCEPT !.ret = nullptr] ELSE t

js_realloc(s, p, bytes, r) ==
    LET t == JS_OOM_POSSIBLY_FAIL(Entered(s, "js_realloc", p, bytes, <<>>))
    IN  IF t.exhausted THEN [t EXCEPT !.ret = nullptr]
        ELSE realloc(t, p, bytes, r)

js_free(s, p) == free(Entered(s, "js_free", p, <<>>, <<>>), p)

\* ------------------------------------------- the typed construction helpers

\* memset(p, 0x3B, sizeof(T)) of js_delete_poison.
PoisonByte == 59

\* new(memory) T(arg): T's constructor runs on the memory and writes the
\* sizeofT bytes of the object.  On null it has no object to write.
PlacementNew(s, memory, sizeofT, arg) ==
    LET t == Entered(s, "ctor", memory, arg, <<>>)
    IN  IF memory = nullptr THEN t
        ELSE [t EXCEPT !.slot[memory] =
                 [@ EXCEPT !.t = sizeofT,
                           !.bytes = [i \in 1..sizeofT |-> arg],
                           !.ctor = @ + 1],
                       !.ret = memory]

\* p->~T().
Destructor(s, p) ==
    LET t == Entered(s, "dtor", p, <<>>, <<>>)
    IN  IF p = nullptr THEN t ELSE [t EXCEPT !.slot[p].dtor = @ + 1]

\* memset(p, c, n): the first n bytes at p become c.
memset(s, p, c, n) ==
    LET t == Entered(s, "memset", p, c, n)
    IN  IF p = nullptr THEN t
        ELSE [t EXCEPT !.slot[p].bytes =
                 [i \in 1..(IF n > Len(@) THEN n ELSE Len(@)) |->
                     IF i <= n THEN c ELSE @[i]]]

\* Mutant: the constructor runs whatever the allocator returned.
js_new_unchecked(s, sizeofT, arg, r) ==
    LET memory == js_malloc(s, SizeT(sizeofT), r)
    IN  PlacementNew(memory, memory.ret, sizeofT, arg)

\* JS_NEW_BODY(js_malloc, T, (arg)).
js_new(s, sizeofT, arg, r) ==
    LET memory == js_malloc(s, SizeT(sizeofT), r)
    IN  IF memory.ret # nullptr
        THEN PlacementNew(memory, memory.ret, sizeofT, arg)
        ELSE [memory EXCEPT !.ret = nullptr]

js_delete(s, p) ==
    IF p # nullptr THEN js_free(Destructor(s, p), p) ELSE s

\* Mutant: the memset is one byte short.
js_delete_poison_short(s, sizeofT, p) ==
    IF p # nullptr
    THEN js_free(memset(Destructor(s, p), p, PoisonByte, sizeofT - 1), p)
    ELSE s

js_delete_poison(s, sizeofT, p) ==
    IF p # nullptr
    THEN js_free(memset(Destructor(s, p), p, PoisonByte, sizeofT), p)
    ELSE s

\* ------------------------------------------------ the scoped-pointer traits

\* ptr->release(): the release operation of the owned object itself.
MethodRelease(s, ptr) ==
    LET t == Entered(s, "release", ptr, <<>>, <<>>)
    IN  IF ptr = nullptr THEN t ELSE [t EXCEPT !.slot[ptr].rel = @ + 1]

ScopedFreePtrTraits_empty == nullptr

ScopedFreePtrTraits_release(s, ptr) == js_free(s, ptr)

ScopedDeletePtrTraits_release(s, ptr) == js_delete(s, ptr)

\* Mutant: the null test is left out.
ScopedReleasePtrTraits_release_unchecked(s, ptr) == MethodRelease(s, ptr)

ScopedReleasePtrTraits_release(s, ptr) ==
    IF ptr # nullptr THEN MethodRelease(s, ptr) ELSE s

\* Traits::release of the wrapper type with release policy pol.
Traits_release(pol, s, ptr) ==
    CASE pol = "free" -> ScopedFreePtrTraits_release(s, ptr)
      [] pol = "delete" -> ScopedDeletePtrTraits_release(s, ptr)
      [] pol = "release" -> ScopedReleasePtrTraits_release(s, ptr)

\* ------------------------------------------------------ the POD bulk helpers

\* x & y for bytes.
AndByte(x, y) ==
    LET bit(v, k) == (v \div (2 ^ k)) % 2
        term(k) == (2 ^ k) * bit(x, k) * bit(y, k)
    IN  term(0) + term(1) + term(2) + term(3) + term(4) + term(5) + term(6) + term(7)

\* a & b for words of one width.
AndW(a, b) == [i \in DOMAIN a |-> AndByte(a[i], b[i])]

\* mozilla::tl::FloorLog2<I> and CeilingLog2<I>.
RECURSIVE FloorLog2(_)
FloorLog2(i) == IF i <= 1 THEN 0 ELSE 1 + FloorLog2(i \div 2)

CeilingLog2(i) == FloorLog2(2 * i - 1)

\* sizeof(T) of the element types, and twice each.
ElemSizes == {1, 3, 4, 8, 16}

MaskSizes == ElemSizes \cup {2 * k : k \in ElemSizes}

\* mozilla::tl::MulOverflowMask<N>::value for size_t of n bytes: the top
\* CeilingLog2<N> bits set (none for N = 1).
MulOverflowMaskValue(n, N) ==
    LET c == IF N = 1 THEN 0 ELSE CeilingLog2(N)
        \* how many of the top bits of byte i are in the mask
        h(i) == IF 8 * i - (8 * n - c) < 0 THEN 0
                ELSE IF 8 * i - (8 * n - c) > 8 THEN 8
                ELSE 8 * i - (8 * n - c)
    IN  [i \in 1..n |-> 256 - 2 ^ (8 - h(i))]

\* The masks, once for each size_t and element size.
MulOverflowMasks == [n \in PtrBytes, N \in MaskSizes |-> MulOverflowMaskValue(n, N)]

MulOverflowMask(n, N) == MulOverflowMasks[n, N]

\* The bytes of x * k + carry from byte i on, the carry out of the top byte last.
RECURSIVE MulBytes(_, _, _, _)
MulBytes(x, k, i, carry) ==
    IF i > Len(x) THEN <<carry>>
    ELSE LET v == x[i] * k + carry
         IN  <<v % 256>> \o MulBytes(x, k, i + 1, v \div 256)

\* x * k in size_t arithmetic: the product modulo 2^(8 Len(x)).
MulW(x, k) == SubSeq(MulBytes(x, k, 1, 0), 1, Len(x))

\* Mutant: the overflow check is left out.
js_pod_malloc_unchecked(s, sizeofT, numElems, r) ==
    js_malloc(s, MulW(numElems, sizeofT), r)

js_pod_malloc(s, sizeofT, numElems, r) ==
    IF AndW(numElems, MulOverflowMask(Len(numElems), sizeofT)) # ZeroW(Len(numElems))
    THEN [s EXCEPT !.ret = nullptr]
    ELSE js_malloc(s, MulW(numElems, sizeofT), r)

\* Mutant: the mask is one bit too wide.
js_pod_calloc_wide(s, sizeofT, numElems, r) ==
    IF AndW(numElems, MulOverflowMask(Len(numElems), 2 * sizeofT)) # ZeroW(Len(numElems))
    THEN [s EXCEPT !.ret = nullptr]
    ELSE js_calloc(s, MulW(numElems, sizeofT), r)

js_pod_calloc(s, sizeofT, numElems, r) ==
    IF AndW(numElems, MulOverflowMask(Len(numElems), sizeofT)) # ZeroW(Len(numElems))
    THEN [s EXCEPT !.ret = nullptr]
    ELSE js_calloc(s, MulW(numElems, sizeofT), r)

\* ------------------------------------------------------------- the actions

\* Byte sizes and counts the callers pass.
ArgSizes == {SizeT(8), SizeT(16)}

ArgCounts == {SizeT(2)}

\* Pointers a caller may pass to js_realloc and js_free: null or allocated.
OwnedPointers == {nullptr} \cup {b \in Blocks : heap[b]}

\* The thresholds and counts the test-control operation writes.
Thresholds == {U32(0), U32(1), U32(2), UINT32_MAX}

CounterWrites == {U32(0), TopW(UINT32_BYTES, 1)}

\* The monitor of the end-to-end scenario: threshold 2 set at count 0 (1),
\* two allocations that succeed (2, 3), a third that is refused (4), the
\* threshold reset to "disabled" (5), later allocations (6).
ScenarioAfterCall(s) ==
    CASE scenario \in {1, 2} -> IF s.ret # nullptr THEN scenario + 1 ELSE 0
      [] scenario = 3 -> IF s.exhausted /\ s.ret = nullptr THEN 4 ELSE 0
      [] scenario \in {5, 6} -> 6
      [] OTHER -> 0

ScenarioAfterThreshold(n) ==
    IF n = U32(2) /\ OOM_counter = U32(0) THEN 1
    ELSE IF n = UINT32_MAX /\ scenario \in {4, 5, 6} THEN IF scenario = 4 THEN 5 ELSE scenario
    ELSE 0

GatedOps == {"js_malloc", "js_calloc", "js_calloc2", "js_realloc"}

\* The gated allocation attempts among the facade calls of s.
GatedCalls(s) == Cardinality({i \in DOMAIN s.fc : s.fc[i].op \in GatedOps})

\* The operation op(p, a, b), on a type of size t where it has one, took
\* the machine to state s.
Commit(s, op, p, a, b, t) ==
    /\ OOM_counter' = s.counter
    /\ OOM_maxAllocations' = s.max
    /\ heap' = s.heap
    /\ slot' = s.slot
    /\ fc' = s.fc
    /\ bk' = s.bk
    /\ last' = [op |-> op, p |-> p, a |-> a, b |-> b, t |-> t, ret |-> s.ret]
    /\ attempts' = attempts + GatedCalls(s)

\* A gated facade call that took the machine to state s.
Gated(s, op, p, a, b) ==
    /\ Commit(s, op, p, a, b, 0)
    /\ scenario' = ScenarioAfterCall(s)
    /\ UNCHANGED <<ptrBytes, otherVars>>

Call_js_malloc ==
    /\ attempts < MaxAttempts
    /\ \E bytes \in ArgSizes, r \in FreshOutcomes(Cur) :
           Gated(js_malloc(Cur, bytes, r), "js_malloc", nullptr, bytes, <<>>)

Call_js_calloc ==
    /\ attempts < MaxAttempts
    /\ \E bytes \in ArgSizes, r \in FreshOutcomes(Cur) :
           Gated(js_calloc(Cur, bytes, r), "js_calloc", nullptr, bytes, <<>>)

Call_js_calloc2 ==
    /\ attempts < MaxAttempts
    /\ \E nmemb \in ArgCounts, size \in ArgSizes, r \in FreshOutcomes(Cur) :
           Gated(js_calloc2(Cur, nmemb, size, r), "js_calloc2", nullptr, nmemb, size)

Call_js_realloc ==
    /\ attempts < MaxAttempts
    /\ \E p \in OwnedPointers, bytes \in ArgSizes :
         \E r \in ReallocOutcomes(Cur, p) :
           Gated(js_realloc(Cur, p, bytes, r), "js_realloc", p, bytes, <<>>)

Call_js_free ==
    \E p \in OwnedPointers :
        /\ Commit(js_free(Cur, p), "js_free", p, <<>>, <<>>, 0)
        /\ UNCHANGED <<ptrBytes, scenario, otherVars>>

\* The test-control operation: the harness writes the threshold, or the
\* count, directly.
SetMaxAllocations ==
    \E n \in Thresholds :
        /\ OOM_maxAllocations' = n
        /\ scenario' = ScenarioAfterThreshold(n)
        /\ UNCHANGED <<ptrBytes, OOM_counter, heap, slot, fc, bk, last, attempts, otherVars>>

SetCounter ==
    \E c \in CounterWrites :
        /\ OOM_counter' = c
        /\ scenario' = IF scenario \in {5, 6} THEN scenario ELSE 0
        /\ UNCHANGED <<ptrBytes, OOM_maxAllocations, heap, slot, fc, bk, last, attempts,
                       otherVars>>

vars == <<ptrBytes, facadeVars, otherVars>>

\* Wrappers in one run.
Wrappers == 1..NumWrappers

NoWrapper == [st |-> "none", value |-> nullptr, how |-> "none", orig |-> nullptr,
              dval |-> nullptr, dlog |-> <<>>]

NoWord == [mem |-> <<>>, orig |-> <<>>, poisoned |-> FALSE, tested |-> FALSE,
           result |-> FALSE]

\* Threads that allocate concurrently.
Threads == 1..NumThreads

IdleThread == [pc |-> "idle", reg |-> U32(0)]

\* passed: attempts the injector let through; overlapped: whether a thread
\* ever entered the injector while another was in it; lost: whether a store
\* of the count ever overwrote a count other than the one it had loaded.
NoTally == [passed |-> 0, overlapped |-> FALSE, lost |-> FALSE]

\* No thread inside a gated allocation.
InitThreads ==
    /\ threads = [t \in Threads |-> IdleThread]
    /\ tally = NoTally

\* No scoped wrapper and no pointer word in use.
InitOther ==
    /\ InitThreads
    /\ policy = "free"
    /\ wrappers = [w \in Wrappers |-> NoWrapper]
    /\ bigEndian = FALSE
    /\ rootAnalysis = FALSE
    /\ word = NoWord

\* The process at start: nothing allocated, the injector disabled.
InitFacade ==
    /\ OOM_maxAllocations = UINT32_MAX
    /\ OOM_counter = U32(0)
    /\ heap = [b \in Blocks |-> FALSE]
    /\ slot = [b \in Blocks |-> RawSlot]
    /\ fc = <<>>
    /\ bk = <<>>
    /\ last = [op |-> "none", p |-> nullptr, a |-> <<>>, b |-> <<>>, t |-> 0,
               ret |-> nullptr]
    /\ attempts = 0
    /\ scenario = 0

Init ==
    /\ ptrBytes \in PtrBytes
    /\ InitFacade
    /\ InitOther

Next ==
    \/ Call_js_malloc
    \/ Call_js_calloc
    \/ Call_js_calloc2
    \/ Call_js_realloc
    \/ Call_js_free
    \/ SetMaxAllocations
    \/ SetCounter

Spec == Init /\ [][Next]_vars

\* Single-threaded sequential use from the initial state: the threshold is
\* set once, before the first allocation, and the count is never rewritten.
SetMaxAllocationsAtStart ==
    /\ attempts = 0
    /\ OOM_maxAllocations = UINT32_MAX
    /\ SetMaxAllocations

NextSeq ==
    \/ SetMaxAllocationsAtStart
    \/ Call_js_malloc
    \/ Call_js_calloc
    \/ Call_js_calloc2
    \/ Call_js_realloc
    \/ Call_js_free

SpecSeq == Init /\ [][NextSeq]_vars

\* ---------------------------------------------------- the POD bulk helpers

\* The quotient bytes of (rem * 256^i + the low i bytes of x) / k.
RECURSIVE DivBytes(_, _, _, _)
DivBytes(x, k, i, rem) ==
    IF i = 0 THEN <<>>
    ELSE LET cur == rem * 256 + x[i]
         IN  DivBytes(x, k, i - 1, cur % k) \o <<cur \div k>>

\* The largest count whose product with k fits a size_t of n bytes.
MaxCounts == [n \in PtrBytes, k \in ElemSizes |-> DivBytes(MaxW(n), k, n, 0)]

MaxCount(n, k) == MaxCounts[n, k]

\* The element counts the callers pass: small ones, the largest size_t,
\* and for each element size the largest count that fits and the next.
PodCountsOf ==
    [n \in PtrBytes |->
        {SmallW(n, 0), SmallW(n, 5), MaxW(n)}
            \cup {MaxCount(n, k) : k \in ElemSizes}
            \cup {IncW(MaxCount(n, k)) : k \in ElemSizes}]

PodCounts == PodCountsOf[ptrBytes]

Call_js_pod_malloc ==
    /\ attempts < MaxPodAttempts
    /\ \E k \in ElemSizes, n \in PodCounts, r \in FreshOutcomes(Cur) :
           Commit(js_pod_malloc(Cur, k, n, r), "js_pod_malloc", nullptr, n, <<>>, k)
    /\ UNCHANGED <<ptrBytes, scenario, otherVars>>

Call_js_pod_calloc ==
    /\ attempts < MaxPodAttempts
    /\ \E k \in ElemSizes, n \in PodCounts, r \in FreshOutcomes(Cur) :
           Commit(js_pod_calloc(Cur, k, n, r), "js_pod_calloc", nullptr, n, <<>>, k)
    /\ UNCHANGED <<ptrBytes, scenario, otherVars>>

NextPod ==
    \/ Call_js_pod_malloc
    \/ Call_js_pod_calloc
    \/ Call_js_free
    \/ SetMaxAllocationsAtStart

SpecPod == Init /\ [][NextPod]_vars

\* ------------------------------------------- the typed construction helpers

\* sizeof(T) of the constructed types, and the constructor's argument.
TypeSizes == {1, 3}

CtorArgs == {7, 59}

\* The objects js_delete may be given: constructed by js_new, not yet destroyed.
LiveObjects == {b \in Blocks : heap[b] /\ slot[b].ctor = 1 /\ slot[b].dtor = 0}

Call_js_new ==
    /\ attempts < MaxAttempts
    /\ \E k \in TypeSizes, arg \in CtorArgs, r \in FreshOutcomes(Cur) :
           Commit(js_new(Cur, k, arg, r), "js_new", nullptr, arg, <<>>, k)
    /\ UNCHANGED <<ptrBytes, scenario, otherVars>>

Call_js_delete ==
    /\ \E p \in {nullptr} \cup LiveObjects :
           Commit(js_delete(Cur, p), "js_delete", p, <<>>, <<>>,
                  IF p = nullptr THEN 0 ELSE slot[p].t)
    /\ UNCHANGED <<ptrBytes, scenario, otherVars>>

Call_js_delete_poison ==
    /\ \E p \in {nullptr} \cup LiveObjects, k \in TypeSizes :
           /\ p # nullptr => k = slot[p].t
           /\ Commit(js_delete_poison(Cur, k, p), "js_delete_poison", p, <<>>, <<>>, k)
    /\ UNCHANGED <<ptrBytes, scenario, otherVars>>

NextNew ==
    \/ Call_js_new
    \/ Call_js_delete
    \/ Call_js_delete_poison
    \/ SetMaxAllocationsAtStart

SpecNew == Init /\ [][NextNew]_vars

\* ---------------------------------------------- the scoped ownership wrapper

Policies == {"free", "delete", "release"}

\* What the live wrappers own.
Owned == {wrappers[w].value : w \in {x \in Wrappers : wrappers[x].st = "live"}}

\* What a caller may hand to a new wrapper: memory of js_malloc for the
\* free policy, an object of js_new for the others, owned by no wrapper.
Unowned ==
    {b \in Blocks :
        /\ heap[b]
        /\ b \notin Owned
        /\ IF policy = "free" THEN slot[b].ctor = 0
           ELSE slot[b].ctor = 1 /\ slot[b].dtor = 0 /\ slot[b].rel = 0}

\* A call of the log that acts on something: js_free(nullptr) does not.
IsAct(e) == ~(e.op = "js_free" /\ e.p = nullptr)

Acts(log) ==
    LET sel == SelectSeq(log, IsAct)
    IN  [i \in 1..Len(sel) |-> <<sel[i].op, sel[i].p>>]

\* The wrapper operations leave the allocator as it is, but for the destructor.
ScopedOp(s, op, p) ==
    /\ Commit(s, op, p, <<>>, <<>>, 0)
    /\ UNCHANGED <<ptrBytes, scenario, policy, bigEndian, rootAnalysis, word, threads,
                   tally>>

\* The caller obtains the memory it will hand to a wrapper.
Acquire_raw ==
    /\ policy = "free"
    /\ attempts < NumWrappers
    /\ \E r \in FreshOutcomes(Cur) :
           Commit(js_malloc(Cur, SizeT(8), r), "js_malloc", nullptr, SizeT(8), <<>>, 0)
    /\ UNCHANGED <<ptrBytes, scenario, otherVars>>

\* The caller obtains the object it will hand to a wrapper.
Acquire_object ==
    /\ policy # "free"
    /\ attempts < NumWrappers
    /\ \E r \in FreshOutcomes(Cur) :
           Commit(js_new(Cur, 1, 7, r), "js_new", nullptr, 7, <<>>, 1)
    /\ UNCHANGED <<ptrBytes, scenario, otherVars>>

\* Scoped(value): the wrapper owns value.
Scoped_construct ==
    \E w \in Wrappers, v \in Unowned :
        /\ wrappers[w].st = "none"
        /\ wrappers' = [wrappers EXCEPT ![w] =
               [NoWrapper EXCEPT !.st = "live", !.value = v, !.how = "owning",
                                 !.orig = v]]
        /\ ScopedOp(Cur, "Scoped", v)

\* Scoped(): the wrapper holds Traits::empty().
Scoped_construct_empty ==
    \E w \in Wrappers :
        /\ wrappers[w].st = "none"
        /\ wrappers' = [wrappers EXCEPT ![w] =
               [NoWrapper EXCEPT !.st = "live", !.value = ScopedFreePtrTraits_empty,
                                 !.how = "empty"]]
        /\ ScopedOp(Cur, "Scoped", nullptr)

\* forget(): the value is returned to the caller and the wrapper is empty.
Scoped_forget ==
    \E w \in Wrappers :
        /\ wrappers[w].st = "live"
        /\ wrappers' = [wrappers EXCEPT ![w].value = ScopedFreePtrTraits_empty,
                                        ![w].how = "forgotten"]
        /\ ScopedOp([Cur EXCEPT !.ret = wrappers[w].value], "forget", wrappers[w].value)

\* Scoped(Scoped&& src): dst takes src's value and src is empty.
Scoped_move ==
    \E src \in Wrappers, dst \in Wrappers :
        /\ wrappers[src].st = "live"
        /\ wrappers[dst].st = "none"
        /\ wrappers' = [wrappers EXCEPT
               ![dst] = [NoWrapper EXCEPT !.st = "live",
                                          !.value = wrappers[src].value,
                                          !.how = "moved-to",
                                          !.orig = wrappers[src].value],
               ![src].value = ScopedFreePtrTraits_empty,
               ![src].how = "moved-from"]
        /\ ScopedOp(Cur, "move", wrappers[src].value)

\* ~Scoped(): Traits::release(value).
Scoped_destroy ==
    \E w \in Wrappers :
        /\ wrappers[w].st = "live"
        /\ LET s == Traits_release(policy, Cur, wrappers[w].value)
           IN  /\ wrappers' = [wrappers EXCEPT ![w].st = "dead",
                                               ![w].dval = wrappers[w].value,
                                               ![w].dlog = Acts(s.fc)]
               /\ ScopedOp(s, "~Scoped", wrappers[w].value)

InitScoped ==
    /\ ptrBytes \in PtrBytes
    /\ InitFacade
    /\ InitThreads
    /\ policy \in Policies
    /\ wrappers = [w \in Wrappers |-> NoWrapper]
    /\ bigEndian = FALSE
    /\ rootAnalysis = FALSE
    /\ word = NoWord

NextScoped ==
    \/ Acquire_raw
    \/ Acquire_object
    \/ Scoped_construct
    \/ Scoped_construct_empty
    \/ Scoped_forget
    \/ Scoped_move
    \/ Scoped_destroy

SpecScoped == InitScoped /\ [][NextScoped]_vars

\* --------------------------------------------------- the stale-pointer marker

\* The pattern PoisonPtr writes; the header uses the name and leaves its
\* definition to the build.
JS_FREE_PATTERN == 218

\* The pointer's value, least significant byte first, as the processor
\* loads it from the bytes mem of the pointer word (lowest address first).
LoadPtr(mem) ==
    IF bigEndian THEN [i \in DOMAIN mem |-> mem[Len(mem) + 1 - i]] ELSE mem

\* Mutant: the byte before the fourth one is overwritten.
PoisonPtr_third(mem) ==
    IF rootAnalysis THEN [mem EXCEPT ![3] = JS_FREE_PATTERN] ELSE mem

\* PoisonPtr(v): *((uint8_t*) v + 3) = JS_FREE_PATTERN on the word at v.
PoisonPtr(mem) ==
    IF rootAnalysis THEN [mem EXCEPT ![3 + 1] = JS_FREE_PATTERN] ELSE mem

\* 0xff000000 at the width of uintptr_t.
TopByteMask(n) == [i \in 1..n |-> IF i = UINT32_BYTES THEN 255 ELSE 0]

\* IsPoisonedPtr(v) for the pointer value v.
IsPoisonedPtr(v) ==
    IF rootAnalysis
    THEN LET mask == SubSeq(AndW(v, TopByteMask(Len(v))), 1, UINT32_BYTES)
         IN  mask = <<0, 0, 0, JS_FREE_PATTERN>>
    ELSE FALSE

SampleBytes == {18, JS_FREE_PATTERN}

PtrWords == [1..ptrBytes -> SampleBytes]

PoisonOp ==
    UNCHANGED <<ptrBytes, facadeVars, policy, wrappers, bigEndian, rootAnalysis,
                threads, tally>>

\* A pointer is stored in the word.
StorePtr ==
    /\ \E m \in PtrWords : word' = [NoWord EXCEPT !.mem = m, !.orig = m]
    /\ PoisonOp

Call_PoisonPtr ==
    /\ word' = [word EXCEPT !.mem = PoisonPtr(word.mem), !.poisoned = TRUE,
                            !.tested = FALSE, !.result = FALSE]
    /\ PoisonOp

Call_IsPoisonedPtr ==
    /\ word' = [word EXCEPT !.tested = TRUE,
                            !.result = IsPoisonedPtr(LoadPtr(word.mem))]
    /\ PoisonOp

InitPoison ==
    /\ ptrBytes \in PtrBytes
    /\ InitFacade
    /\ InitThreads
    /\ policy = "free"
    /\ wrappers = [w \in Wrappers |-> NoWrapper]
    /\ bigEndian \in BOOLEAN
    /\ rootAnalysis \in BOOLEAN
    /\ word \in {[NoWord EXCEPT !.mem = m, !.orig = m] : m \in PtrWords}

NextPoison ==
    \/ StorePtr
    \/ Call_PoisonPtr
    \/ Call_IsPoisonedPtr

SpecPoison == InitPoison /\ [][NextPoison]_vars

\* ------------------------------------- gated allocations from several threads

\* ++OOM_counter is a load of the count, an add and a store; the count is an
\* ordinary uint32_t and nothing orders the threads between the two.
OOM_counter_load(s) == s.counter

OOM_counter_store(s, reg) == [s EXCEPT !.counter = IncW(reg)]

\* What `++OOM_counter > OOM_maxAllocations` may compare under the data race:
\* the count the thread stored, kept in a register, or the count read again.
ComparedCounts(s, reg) == {reg, s.counter}

\* Mutant: the comparison is >=.
JS_OOM_POSSIBLY_FAIL_compare_ge(s, c) == [s EXCEPT !.exhausted = ~GtW(s.max, c)]

\* The comparison of JS_OOM_POSSIBLY_FAIL, on the count c.
JS_OOM_POSSIBLY_FAIL_compare(s, c) == [s EXCEPT !.exhausted = GtW(c, s.max)]

\* js_malloc from the comparison on.
js_malloc_compared(s, bytes, c, r) ==
    LET t == JS_OOM_POSSIBLY_FAIL_compare(s, c)
    IN  IF t.exhausted THEN [t EXCEPT !.ret = nullptr]
        ELSE malloc(t, bytes, r)

Busy == {t \in Threads : threads[t].pc # "idle"}

ThreadStep ==
    UNCHANGED <<ptrBytes, scenario, policy, wrappers, bigEndian, rootAnalysis, word>>

\* Thread t calls js_malloc and loads the count.
Thread_load(t) ==
    /\ threads[t].pc = "idle"
    /\ attempts + Cardinality(Busy) < MaxAttempts
    /\ threads' = [threads EXCEPT ![t] = [pc |-> "loaded",
                                          reg |-> OOM_counter_load(Cur)]]
    /\ tally' = [tally EXCEPT !.overlapped = @ \/ Busy # {}]
    /\ UNCHANGED facadeVars
    /\ ThreadStep

\* Thread t stores the count it loaded, plus one.
Thread_store(t) ==
    /\ threads[t].pc = "loaded"
    /\ LET s == OOM_counter_store(Cur, threads[t].reg)
       IN  /\ OOM_counter' = s.counter
           /\ threads' = [threads EXCEPT ![t] = [pc |-> "stored", reg |-> s.counter]]
    /\ tally' = [tally EXCEPT !.lost = @ \/ OOM_counter # threads[t].reg]
    /\ UNCHANGED <<OOM_maxAllocations, heap, slot, fc, bk, last, attempts>>
    /\ ThreadStep

\* Thread t compares and returns from js_malloc.
Thread_compare(t) ==
    /\ threads[t].pc = "stored"
    /\ \E c \in ComparedCounts(Cur, threads[t].reg), r \in FreshOutcomes(Cur) :
           LET s == js_malloc_compared(Entered(Cur, "js_malloc", nullptr, SizeT(8), <<>>),
                                       SizeT(8), c, r)
           IN  /\ Commit(s, "js_malloc", nullptr, SizeT(8), <<>>, 0)
               /\ tally' = [tally EXCEPT !.passed = IF s.exhausted THEN @ ELSE @ + 1]
    /\ threads' = [threads EXCEPT ![t] = IdleThread]
    /\ ThreadStep

\* The threshold is set once, before any thread allocates.
SetMaxAllocationsBeforeThreads ==
    /\ Busy = {}
    /\ SetMaxAllocationsAtStart

NextRace ==
    \/ SetMaxAllocationsBeforeThreads
    \/ \E t \in Threads : Thread_load(t)
    \/ \E t \in Threads : Thread_store(t)
    \/ \E t \in Threads : Thread_compare(t)

SpecRace == Init /\ [][NextRace]_vars

\* ------------------------------------------------------------------ claims

\* A step that is one gated allocation attempt.
GatedStep == attempts' = attempts + 1

\* Whether attempt number k is beyond threshold n.
Beyond(k, n) == IsSmallW(n) /\ k > ValW(n)

C2_FailsContinuously ==
    [][(GatedStep /\ GtW(OOM_counter, OOM_maxAllocations)) =>
        (bk' = <<>> /\ last'.ret = nullptr)]_vars

\* The backend call a facade call is to make.
ExpectedCall(l) ==
    [fn |-> CASE l.op = "js_malloc" -> "malloc"
              [] l.op \in {"js_calloc", "js_calloc2"} -> "calloc"
              [] l.op = "js_realloc" -> "realloc",
     p |-> l.p,
     a |-> l.a,
     b |-> IF l.op = "js_calloc" THEN SizeT(1) ELSE l.b,
     ret |-> l.ret]

\* C3: a gated facade call whose new count exceeds the threshold returns
\* null, calls the backend not at all and leaves the heap as it is; any
\* other calls the backend once, with its arguments, and returns its result.
C3_FacadeForwards ==
    [][GatedStep =>
        IF GtW(OOM_counter', OOM_maxAllocations')
        THEN last'.ret = nullptr /\ bk' = <<>> /\ heap' = heap
        ELSE bk' = <<ExpectedCall(last')>>]_vars

C3_Witness ==
    /\ last.op = "js_realloc"
    /\ last.p # nullptr
    /\ last.ret = nullptr
    /\ bk = <<>>
    /\ heap[last.p]

\* C4: with the threshold at the disabled value every gated allocation
\* reaches the backend, and the scenario's reset leaves it at that value.
C4_DisabledPasses ==
    /\ [](scenario \in {5, 6} => OOM_maxAllocations = UINT32_MAX)
    /\ [][(GatedStep /\ OOM_maxAllocations = UINT32_MAX) => Len(bk') = 1]_vars

C4_Witness ==
    /\ scenario = 6
    /\ last.op = "js_malloc"
    /\ last.ret # nullptr
    /\ Len(bk) = 1
    /\ GtW(OOM_counter, U32(3))

PodOps == {"js_pod_malloc", "js_pod_calloc"}

\* C5: a POD bulk helper whose count exceeds the largest count that fits
\* returns null without calling the facade, and a helper that calls the
\* facade calls it once, with the exact product as the byte size.
C5_OverflowRefused ==
    last.op \in PodOps =>
        /\ GtW(last.a, MaxCount(ptrBytes, last.t)) =>
              (fc = <<>> /\ bk = <<>> /\ last.ret = nullptr)
        /\ fc # <<>> =>
              /\ Len(fc) = 1
              /\ fc[1].op = (IF last.op = "js_pod_malloc" THEN "js_malloc" ELSE "js_calloc")
              /\ Append(fc[1].a, 0) = MulBytes(last.a, last.t, 1, 0)

C5_Witness ==
    /\ last.op = "js_pod_malloc"
    /\ last.t = 3
    /\ GtW(last.a, MaxCount(ptrBytes, 3))
    /\ fc = <<>>
    /\ last.ret = nullptr

BoundarySizes == {1, 4, 8, 16}

\* The helper passed the overflow check: it called the facade with the
\* product, and returned the backend's result where the backend was reached.
PodPassed ==
    /\ Len(fc) = 1
    /\ fc[1].a = MulW(last.a, last.t)
    /\ bk # <<>> => last.ret = bk[1].ret

PodRefused == fc = <<>> /\ bk = <<>> /\ last.ret = nullptr

\* C6 as stated: for each element size in {1, 4, 8, 16} the helper passes
\* the overflow check at the largest count that fits and is refused,
\* without a backend call, at that count + 1.
C6_Boundary ==
    (last.op \in PodOps /\ last.t \in BoundarySizes) =>
        /\ last.a = MaxCount(ptrBytes, last.t) => PodPassed
        /\ last.a = IncW(MaxCount(ptrBytes, last.t)) => PodRefused

\* C6 as amended: the helper passes at the largest count that fits for
\* each size in {1, 4, 8, 16}, and is refused at that count + 1 for the
\* sizes 4, 8 and 16; for size 1 the largest count is the largest size_t,
\* count + 1 wraps to 0, and every count passes.
C6_BoundaryAmended ==
    (last.op \in PodOps /\ last.t \in BoundarySizes) =>
        /\ last.a = MaxCount(ptrBytes, last.t) => PodPassed
        /\ (last.t # 1 /\ last.a = IncW(MaxCount(ptrBytes, last.t))) => PodRefused
        /\ last.t = 1 => PodPassed

C6_Witness ==
    /\ last.op = "js_pod_calloc"
    /\ last.t = 8
    /\ last.a = MaxCount(ptrBytes, 8)
    /\ PodPassed
    /\ last.ret # nullptr

\* The constructor runs among what the last operation called.
CtorRuns == {i \in DOMAIN fc : fc[i].op = "ctor"}

\* C8: js_new either returns allocated memory on which the constructor ran
\* exactly once, with the caller's argument, or returns null having run no
\* constructor; no constructor runs on null, and memory the backend
\* returned is never dropped or returned unconstructed.
C8_ConstructOrFail ==
    last.op = "js_new" =>
        /\ \A i \in CtorRuns : fc[i].p # nullptr
        /\ (bk # <<>> /\ bk[1].ret # nullptr) => last.ret = bk[1].ret
        /\ IF last.ret # nullptr
           THEN /\ heap[last.ret]
                /\ bk # <<>> /\ bk[1].ret = last.ret
                /\ Cardinality(CtorRuns) = 1
                /\ \A i \in CtorRuns : fc[i].p = last.ret /\ fc[i].a = last.a
                /\ slot[last.ret].ctor = 1
                /\ slot[last.ret].dtor = 0
                /\ slot[last.ret].bytes = [i \in 1..last.t |-> last.a]
           ELSE CtorRuns = {}

C8_Witness ==
    /\ last.op = "js_new"
    /\ last.ret # nullptr
    /\ slot[last.ret].ctor = 1
    /\ slot[last.ret].bytes = <<7, 7, 7>>

DeleteOps == {"js_delete", "js_delete_poison"}

\* C9: js_delete and js_delete_poison on null call nothing and change
\* nothing; on an object they run its destructor once, then (poisoned
\* variant) memset its sizeof(T) bytes to 0x3B, then free it through
\* js_free once, in that order, so that js_free is given memory whose
\* every byte is 0x3B.
C9_DestroyInOrder ==
    /\ [](last.op \in DeleteOps =>
            IF last.p = nullptr THEN fc = <<>> /\ bk = <<>>
            ELSE /\ [i \in DOMAIN fc |-> fc[i].op] =
                       (IF last.op = "js_delete_poison"
                        THEN <<"dtor", "memset", "js_free">>
                        ELSE <<"dtor", "js_free">>)
                 /\ \A i \in DOMAIN fc : fc[i].p = last.p
                 /\ slot[last.p].dtor = 1
                 /\ Len(bk) = 1 /\ bk[1].fn = "free" /\ bk[1].p = last.p
                 /\ ~heap[last.p]
                 /\ last.op = "js_delete_poison" =>
                       /\ fc[2].a = PoisonByte /\ fc[2].b = last.t
                       /\ fc[3].mem = [i \in 1..last.t |-> PoisonByte])
    /\ [][(last'.op \in DeleteOps /\ last'.p = nullptr) =>
            (heap' = heap /\ slot' = slot)]_vars

C9_Witness ==
    /\ last.op = "js_delete_poison"
    /\ last.p # nullptr
    /\ fc[1].mem = <<7, 7, 7>>
    /\ fc[3].mem = <<59, 59, 59>>
    /\ ~heap[last.p]

\* What releasing v under the policy of the run calls.
ExpectedRelease(v) ==
    CASE policy = "free" -> << <<"js_free", v>> >>
      [] policy = "delete" -> << <<"dtor", v>>, <<"js_free", v>> >>
      [] policy = "release" -> << <<"release", v>> >>

\* The step released v under the policy of the run.
ReleasedInStep(v) ==
    CASE policy = "free" -> heap[v] /\ ~heap'[v]
      [] policy = "delete" ->
            heap[v] /\ ~heap'[v] /\ slot'[v].dtor = slot[v].dtor + 1
      [] policy = "release" -> slot'[v].rel = slot[v].rel + 1

\* C7: under each release policy the destructor of a wrapper constructed
\* around v releases v exactly once; the destructor of a wrapper after
\* forget(), or of the source of a move, releases nothing; the destructor
\* of the destination of a move releases the moved value exactly once.
C7_ReleasedOnce ==
    /\ [](\A w \in Wrappers :
            wrappers[w].st = "dead" =>
                LET r == wrappers[w]
                IN  /\ r.how = "owning" =>
                          (r.dval = r.orig /\ r.dval # nullptr
                              /\ r.dlog = ExpectedRelease(r.dval))
                    /\ r.how \in {"forgotten", "moved-from", "empty"} =>
                          (r.dval = nullptr /\ r.dlog = <<>>)
                    /\ r.how = "moved-to" =>
                          (r.dval = r.orig
                              /\ r.dlog = IF r.orig = nullptr THEN <<>>
                                          ELSE ExpectedRelease(r.orig)))
    /\ [][\A w \in Wrappers :
            (wrappers[w].st = "live" /\ wrappers'[w].st = "dead") =>
                IF wrappers[w].value = nullptr
                THEN heap' = heap /\ slot' = slot
                ELSE ReleasedInStep(wrappers[w].value)]_vars

C7_Witness ==
    \E src \in Wrappers, dst \in Wrappers :
        /\ policy = "delete"
        /\ wrappers[src].st = "dead" /\ wrappers[src].how = "moved-from"
        /\ wrappers[src].orig # nullptr /\ wrappers[src].dlog = <<>>
        /\ wrappers[dst].st = "dead" /\ wrappers[dst].how = "moved-to"
        /\ wrappers[dst].orig = wrappers[src].orig
        /\ Len(wrappers[dst].dlog) = 2
        /\ last.op = "~Scoped" /\ last.p = wrappers[dst].orig

\* The word differs from the stored pointer in byte k of its value alone,
\* which holds the pattern.
OnlyByteMarked(k) ==
    LET v == LoadPtr(word.mem)
        o == LoadPtr(word.orig)
    IN  /\ v[k] = JS_FREE_PATTERN
        /\ \A i \in DOMAIN v : i # k => v[i] = o[i]

\* C10 as stated: with root analysis on, at both pointer widths, PoisonPtr
\* overwrites the second-most-significant byte of the pointer value and
\* leaves the others, and IsPoisonedPtr is true of every word PoisonPtr
\* has been applied to.
C10_SecondMostSignificant ==
    (rootAnalysis /\ word.poisoned) =>
        /\ OnlyByteMarked(ptrBytes - 1)
        /\ word.tested => word.result

\* C10 amended: with root analysis on, PoisonPtr overwrites the byte at
\* offset 3 of the pointer word in memory and leaves the others;
\* IsPoisonedPtr tests bits 24-31 of the pointer value.  On a little-endian
\* layout that is the byte PoisonPtr wrote at both widths, so IsPoisonedPtr
\* is true of every word PoisonPtr has been applied to; on a big-endian
\* layout PoisonPtr wrote another byte of the value and IsPoisonedPtr
\* answers as it would have for the pointer before it was marked.
C10_FourthByteAmended ==
    (rootAnalysis /\ word.poisoned) =>
        /\ word.mem[4] = JS_FREE_PATTERN
        /\ \A i \in DOMAIN word.mem : i # 4 => word.mem[i] = word.orig[i]
        /\ OnlyByteMarked(IF bigEndian THEN ptrBytes - 3 ELSE 4)
        /\ word.tested =>
              IF bigEndian
              THEN word.result <=> (LoadPtr(word.orig)[4] = JS_FREE_PATTERN)
              ELSE word.result

C10_Witness ==
    /\ rootAnalysis /\ ~bigEndian /\ ptrBytes = 8
    /\ word.poisoned /\ word.tested /\ word.result
    /\ word.orig[4] # JS_FREE_PATTERN
    /\ word.mem[4] = JS_FREE_PATTERN

\* C11: when the threads' gated allocations do not overlap, exactly the
\* first N attempts pass the injector, in whatever order the threads take
\* turns; when they overlap, more than N attempts in total can pass (the
\* witness), and only after a store of the count has overwritten another
\* thread's increment.
C11_RaceBreaksCount ==
    /\ ~tally.overlapped =>
          tally.passed = IF Beyond(attempts, OOM_maxAllocations)
                         THEN ValW(OOM_maxAllocations) ELSE attempts
    /\ (IsSmallW(OOM_maxAllocations) /\ tally.passed > ValW(OOM_maxAllocations)) =>
          (tally.overlapped /\ tally.lost)

C11_Witness ==
    /\ OOM_maxAllocations = U32(1)
    /\ Busy = {}
    /\ tally.overlapped /\ tally.lost
    /\ tally.passed > 1
    /\ last.op = "js_malloc" /\ last.ret # nullptr

====
